---------------------------- MODULE Spec2Model ----------------------------
(***************************************************************************)
(* A model of zmq_to_pva: the ZeroMQ -> PVAccess bridge of                 *)
(* src/pva_broadcast.py (reader, classifier, dispatcher, monitor loop,     *)
(* main_loop) with the sinks of src/pva_instance.py.                       *)
(*                                                                         *)
(* Byte buffers are sequences of naturals 0..255.  Python text is the      *)
(* sequence of its code points; every text of the model is ASCII, so a     *)
(* text and its UTF-8 encoding are the same sequence.                      *)
(***************************************************************************)
EXTENDS Integers, Sequences, FiniteSets, TLC

(***************************************************************************)
(* Literals of the source.                                                 *)
(***************************************************************************)
START_TAG == <<91, 115, 116, 97, 114, 116, 93>>                   \* b"[start]"
END_TAG == <<91, 101, 110, 100, 93>>                              \* b"[end]"
FINAL_TAG == <<45, 119, 114, 105, 116, 101, 100, 111, 110, 101>>  \* b"-writedone"
GARBAGE_TAG == <<109, 101, 116, 97, 32, 100, 97, 116, 97>>        \* b"meta data"
K_image_key == <<45, 105, 109, 97, 103, 101, 95, 107, 101, 121>>  \* '-image_key'
K_nrays == <<45, 110, 114, 97, 121, 115>>                         \* '-nrays'
K_nrays_plus == <<43, 110, 114, 97, 121, 115>>                    \* '+nrays'
K_nslices == <<45, 110, 115, 108, 105, 99, 101, 115>>             \* '-nslices'
K_nslices_plus == <<43, 110, 115, 108, 105, 99, 101, 115>>        \* '+nslices'
K_dtype == <<45, 100, 116, 121, 112, 101>>                        \* '-dtype'
K_nangles == <<45, 110, 97, 110, 103, 108, 101, 115>>             \* '-nangles'
K_arange == <<45, 97, 114, 97, 110, 103, 101>>                    \* '-arange'
CRLF == <<13, 10>>                                                \* '\r\n'
SP == <<32>>                                                      \* ' '
EMPTY == << >>                                                    \* ""

(***************************************************************************)
(* Python built-ins the source uses, on byte/character sequences.          *)
(***************************************************************************)
\* bytes.startswith(prefix)
startswith(b, prefix) ==
    /\ Len(b) >= Len(prefix)
    /\ SubSeq(b, 1, Len(prefix)) = prefix

\* b[4:]
Slice4(b) == SubSeq(b, 5, Len(b))

\* the first index at which sep occurs in s, 0 when it does not occur
Find(s, sep) ==
    LET hits == {i \in 1..(Len(s) - Len(sep) + 1) :
                    SubSeq(s, i, i + Len(sep) - 1) = sep}
    IN  IF hits = {} THEN 0 ELSE CHOOSE i \in hits : \A j \in hits : i <= j

\* str.split(sep): every non-overlapping occurrence of sep, left to right,
\* cuts; empty pieces are kept.
RECURSIVE split(_, _)
split(s, sep) ==
    LET i == Find(s, sep)
    IN  IF i = 0 THEN <<s>>
        ELSE <<SubSeq(s, 1, i - 1)>> \o split(SubSeq(s, i + Len(sep), Len(s)), sep)

\* bytes.decode(): UTF-8.  A byte below 128 is its own code point; the byte
\* 255 occurs in no UTF-8 text.  Buffers of the model hold bytes 0..127 and
\* 255 only.
decode(b) ==
    IF \A i \in 1..Len(b) : b[i] < 128
    THEN [exc |-> "", v |-> b]
    ELSE [exc |-> "UnicodeDecodeError", v |-> EMPTY]

RECURSIVE DigitsVal(_)
DigitsVal(s) ==
    IF s = << >> THEN 0
    ELSE 10 * DigitsVal(SubSeq(s, 1, Len(s) - 1)) + (s[Len(s)] - 48)

IsDigits(s) == s # << >> /\ \A i \in 1..Len(s) : s[i] \in 48..57

\* int(text): an optional sign and decimal digits; anything else of the
\* model's alphabet is a ValueError.
int(s) ==
    LET signed == Len(s) > 0 /\ s[1] \in {43, 45}
        body == IF signed THEN Tail(s) ELSE s
    IN  IF IsDigits(body)
        THEN [exc |-> "",
              v |-> IF signed /\ s[1] = 45 THEN 0 - DigitsVal(body) ELSE DigitsVal(body)]
        ELSE [exc |-> "ValueError", v |-> 0]

(***************************************************************************)
(* Python floats: a finite value is the exact fraction n/d in lowest terms *)
(* (d > 0); inf carries its sign in n; nan.  Rounding is not modelled.     *)
(***************************************************************************)
RECURSIVE Gcd(_, _)
Gcd(a, b) == IF b = 0 THEN a ELSE Gcd(b, a % b)

Abs(x) == IF x < 0 THEN 0 - x ELSE x

Sgn(x) == IF x < 0 THEN 0 - 1 ELSE IF x = 0 THEN 0 ELSE 1

Fraction(n, d) ==
    LET g == Gcd(Abs(n), Abs(d))
    IN  [k |-> "num", n |-> (Sgn(d) * n) \div g, d |-> Abs(d) \div g]

NAN == [k |-> "nan", n |-> 0, d |-> 0]

INF(sign) == [k |-> "inf", n |-> sign, d |-> 0]

S_nan == <<110, 97, 110>>                                         \* 'nan'
S_inf == <<105, 110, 102>>                                        \* 'inf'

\* float(text): the integer literals of int(), 'nan' and 'inf'; anything else
\* of the model's alphabet is a ValueError.
float(s) ==
    IF s = S_nan THEN [exc |-> "", v |-> NAN]
    ELSE IF s = S_inf THEN [exc |-> "", v |-> INF(1)]
    ELSE IF int(s).exc = "" THEN [exc |-> "", v |-> Fraction(int(s).v, 1)]
    ELSE [exc |-> "ValueError", v |-> NAN]

\* as truediv, with IEEE division: x / 0 is an infinity or nan
truediv_inf(x, m) ==
    IF m = 0 THEN [exc |-> "", v |-> IF x.k = "num" /\ x.n # 0 THEN INF(Sgn(x.n)) ELSE NAN]
    ELSE IF x.k = "nan" THEN [exc |-> "", v |-> NAN]
    ELSE IF x.k = "inf" THEN [exc |-> "", v |-> INF(x.n * Sgn(m))]
    ELSE [exc |-> "", v |-> Fraction(x.n, x.d * m)]

\* x / m for a float x and an int m: Python raises ZeroDivisionError for m = 0,
\* whatever x is.
truediv(x, m) ==
    IF m = 0 THEN [exc |-> "ZeroDivisionError", v |-> NAN]
    ELSE IF x.k = "nan" THEN [exc |-> "", v |-> NAN]
    ELSE IF x.k = "inf" THEN [exc |-> "", v |-> INF(x.n * Sgn(m))]
    ELSE [exc |-> "", v |-> Fraction(x.n, x.d * m)]

\* np.frombuffer(b, dtype=">uW"): big-endian unsigned words of w bytes
RECURSIVE BigEndian(_)
BigEndian(b) ==
    IF b = << >> THEN 0
    ELSE 256 * BigEndian(SubSeq(b, 1, Len(b) - 1)) + b[Len(b)]

frombuffer(b, w) ==
    IF Len(b) % w # 0
    THEN [exc |-> "ValueError", v |-> << >>]
    ELSE [exc |-> "",
          v |-> [i \in 1..(Len(b) \div w) |-> BigEndian(SubSeq(b, w * (i - 1) + 1, w * i))]]

(***************************************************************************)
(* Python values of more than one type.  A decoded array keeps its dtype,  *)
(* its shape and its elements in row-major order; columns/rows are the int *)
(* 0 or a text of the parameter block.                                     *)
(***************************************************************************)
PyInt(n) == [t |-> "int", v |-> n]

PyStr(s) == [t |-> "str", v |-> s]

None == [kind |-> "None"]

\* the tuple (None, None) that read() returns for a message with bad tags
NoneNone == [kind |-> "tuple"]

EmptyDict == [x \in {} |-> EMPTY]

\* output_dict[k] = v
SetItem(d, k, v) == [x \in (DOMAIN d) \cup {k} |-> IF x = k THEN v ELSE d[x]]

(***************************************************************************)
(* ReadBCSTomoData                                                         *)
(***************************************************************************)
\* read(), lines 163-175: what it makes of the seven parts it received.
\* raw is the data_obj of lines 154-161, a record of seven byte buffers.
read_tags_ok(raw) == startswith(raw.start, START_TAG) /\ startswith(raw.end, END_TAG)

read(raw) ==
    LET info == frombuffer(Slice4(raw.info), 4)
        image == frombuffer(Slice4(raw.image), 2)
    IN  IF info.exc # "" THEN [exc |-> info.exc, v |-> None]
        ELSE IF image.exc # "" THEN [exc |-> image.exc, v |-> None]
        ELSE IF Len(info.v) < 2 THEN [exc |-> "IndexError", v |-> None]
        ELSE IF Len(image.v) # info.v[2] * info.v[1]
             THEN [exc |-> "ValueError", v |-> None]
        ELSE IF read_tags_ok(raw)
             THEN [exc |-> "",
                   v |-> [kind |-> "dict",
                          start |-> raw.start,
                          image |-> [dtype |-> ">u2",
                                     shape |-> <<1, info.v[2], info.v[1]>>,
                                     data |-> image.v],
                          info |-> info.v,
                          h5_file |-> raw.h5_file,
                          tif_file |-> raw.tif_file,
                          params |-> raw.params,
                          end |-> raw.end]]
        ELSE [exc |-> "", v |-> NoneNone]

is_final(data_obj) == startswith(data_obj.params, FINAL_TAG)

is_garbage(data_obj) == startswith(data_obj.params, GARBAGE_TAG)

\* as is_null_frame, with < for <=
is_null_frame_strict(data_obj) ==
    (data_obj.image.shape[2] + data_obj.image.shape[3]) < 3

is_null_frame(data_obj) == (data_obj.image.shape[2] + data_obj.image.shape[3]) <= 3

\* params_to_dict, lines 199-204: one line of the block
params_to_dict_line(output_dict, i) ==
    LET kv_split == split(i, SP)
    IN  IF Len(kv_split) > 1
        THEN SetItem(output_dict, kv_split[1], kv_split[2])
        ELSE SetItem(output_dict, kv_split[1], EMPTY)

RECURSIVE params_to_dict_loop(_, _)
params_to_dict_loop(output_dict, kv_pair_list) ==
    IF kv_pair_list = << >> THEN output_dict
    ELSE params_to_dict_loop(params_to_dict_line(output_dict, Head(kv_pair_list)),
                             Tail(kv_pair_list))

params_to_dict(params) ==
    LET text == decode(params)
    IN  IF text.exc # "" THEN [exc |-> text.exc, v |-> EmptyDict]
        ELSE [exc |-> "", v |-> params_to_dict_loop(EmptyDict, split(text.v, CRLF))]

(***************************************************************************)
(* PVABroadcaster (src/pva_instance.py) and the metadata sink              *)
(***************************************************************************)
\* adjust_dtype: an array that is neither uint16 nor >u2 gets None back
adjust_dtype(frame_data, dtype) ==
    IF frame_data.dtype = "uint16"
    THEN [exc |-> "", frame_data |-> frame_data, dtype |-> dtype]
    ELSE IF frame_data.dtype = ">u2"
    THEN [exc |-> "", frame_data |-> [frame_data EXCEPT !.dtype = "uint16"], dtype |-> "uint16"]
    ELSE [exc |-> "TypeError", frame_data |-> frame_data, dtype |-> dtype]

\* frameProducer on the broadcaster `sink`: the record it publishes with
\* pvaServer.update, as one sink operation.
frameProducer(sink, frameId, frame_data, nx, ny, dtype) ==
    LET adj == adjust_dtype(frame_data, dtype)
    IN  [call |-> "frameProducer",
         target |-> sink,
         value |-> [frameId |-> frameId, frame_data |-> adj.frame_data,
                    nx |-> nx, ny |-> ny, dtype |-> adj.dtype]]

\* epics.caput(ts_prefix + pv, value), as one sink operation
caput(pv, value) == [call |-> "caput", target |-> pv, value |-> value]

(***************************************************************************)
(* TomoStreamPVASet                                                        *)
(***************************************************************************)
\* as parse_image_params, with dtype set to 'uint16' whatever -dtype is
parse_image_params_default_dtype(param_dict) ==
    LET param_keys == DOMAIN param_dict
        missing == [exc |-> "", columns |-> PyInt(0), rows |-> PyInt(0), dtype |-> "uint16"]
    IN  IF K_nrays \notin param_keys /\ K_nrays_plus \notin param_keys THEN missing
        ELSE IF K_nslices \notin param_keys /\ K_nslices_plus \notin param_keys THEN missing
        ELSE LET columns == IF K_nrays \in param_keys THEN param_dict[K_nrays]
                            ELSE param_dict[K_nrays_plus]
                 rows == IF K_nslices \in param_keys THEN param_dict[K_nslices]
                         ELSE param_dict[K_nslices_plus]
             IN  [exc |-> "", columns |-> PyStr(columns), rows |-> PyStr(rows),
                  dtype |-> "uint16"]

parse_image_params(param_dict) ==
    LET param_keys == DOMAIN param_dict
        missing == [exc |-> "", columns |-> PyInt(0), rows |-> PyInt(0), dtype |-> "uint16"]
    IN  IF K_nrays \notin param_keys /\ K_nrays_plus \notin param_keys THEN missing
        ELSE IF K_nslices \notin param_keys /\ K_nslices_plus \notin param_keys THEN missing
        ELSE LET columns == IF K_nrays \in param_keys THEN param_dict[K_nrays]
                            ELSE param_dict[K_nrays_plus]
                 rows == IF K_nslices \in param_keys THEN param_dict[K_nslices]
                         ELSE param_dict[K_nslices_plus]
             IN  IF K_dtype \in param_keys /\ param_dict[K_dtype] = EMPTY
                 THEN [exc |-> "", columns |-> PyStr(columns), rows |-> PyStr(rows),
                       dtype |-> "uint16"]
                 ELSE [exc |-> "UnboundLocalError", columns |-> PyStr(columns),
                       rows |-> PyStr(rows), dtype |-> ""]

\* np.linspace(0, angle_range, num_angles) raises for a negative count; the
\* angles are dropped, so only their number is kept
broadcast_theta(param_dict) ==
    IF K_nangles \notin DOMAIN param_dict THEN [exc |-> "KeyError", angles |-> 0]
    ELSE IF int(param_dict[K_nangles]).exc # "" THEN [exc |-> "ValueError", angles |-> 0]
    ELSE IF K_arange \notin DOMAIN param_dict THEN [exc |-> "KeyError", angles |-> 0]
    ELSE IF float(param_dict[K_arange]).exc # "" THEN [exc |-> "ValueError", angles |-> 0]
    ELSE IF int(param_dict[K_nangles]).v < 0 THEN [exc |-> "ValueError", angles |-> 0]
    ELSE [exc |-> "", angles |-> int(param_dict[K_nangles]).v]

\* as update_ancillary_pvs, with the FrameType write of line 137 made first
update_ancillary_pvs_FrameType_first(ts_prefix, param_dict) ==
    IF K_nangles \notin DOMAIN param_dict THEN [exc |-> "KeyError", ops |-> << >>]
    ELSE IF int(param_dict[K_nangles]).exc # "" THEN [exc |-> "ValueError", ops |-> << >>]
    ELSE
      LET num_angles == int(param_dict[K_nangles]).v
          w0 == caput(<<ts_prefix, "FrameType">>, param_dict[K_image_key])
          w1 == caput(<<ts_prefix, "NumAngles">>, num_angles)
      IN  IF K_arange \notin DOMAIN param_dict THEN [exc |-> "KeyError", ops |-> <<w0, w1>>]
          ELSE IF float(param_dict[K_arange]).exc # ""
               THEN [exc |-> "ValueError", ops |-> <<w0, w1>>]
          ELSE
            LET rotation_step == truediv(float(param_dict[K_arange]).v, num_angles - 1)
            IN  IF rotation_step.exc # "" THEN [exc |-> rotation_step.exc, ops |-> <<w0, w1>>]
                ELSE [exc |-> "",
                      ops |-> <<w0, w1,
                                caput(<<ts_prefix, "RotationStep">>, rotation_step.v)>>]

\* as update_ancillary_pvs, with the FrameType write of line 137 missing
update_ancillary_pvs_no_FrameType(ts_prefix, param_dict) ==
    IF K_nangles \notin DOMAIN param_dict THEN [exc |-> "KeyError", ops |-> << >>]
    ELSE IF int(param_dict[K_nangles]).exc # "" THEN [exc |-> "ValueError", ops |-> << >>]
    ELSE
      LET num_angles == int(param_dict[K_nangles]).v
          w1 == caput(<<ts_prefix, "NumAngles">>, num_angles)
      IN  IF K_arange \notin DOMAIN param_dict THEN [exc |-> "KeyError", ops |-> <<w1>>]
          ELSE IF float(param_dict[K_arange]).exc # ""
               THEN [exc |-> "ValueError", ops |-> <<w1>>]
          ELSE
            LET rotation_step == truediv(float(param_dict[K_arange]).v, num_angles - 1)
            IN  IF rotation_step.exc # "" THEN [exc |-> rotation_step.exc, ops |-> <<w1>>]
                ELSE [exc |-> "",
                      ops |-> <<w1,
                                caput(<<ts_prefix, "RotationStep">>, rotation_step.v)>>]

\* the sink operations update_ancillary_pvs issues, in order, and the
\* exception that ends it early ("" when it returns)
update_ancillary_pvs(ts_prefix, param_dict) ==
    IF K_nangles \notin DOMAIN param_dict THEN [exc |-> "KeyError", ops |-> << >>]
    ELSE IF int(param_dict[K_nangles]).exc # "" THEN [exc |-> "ValueError", ops |-> << >>]
    ELSE
      LET num_angles == int(param_dict[K_nangles]).v
          w1 == caput(<<ts_prefix, "NumAngles">>, num_angles)
      IN  IF K_arange \notin DOMAIN param_dict THEN [exc |-> "KeyError", ops |-> <<w1>>]
          ELSE IF float(param_dict[K_arange]).exc # ""
               THEN [exc |-> "ValueError", ops |-> <<w1>>]
          ELSE
            LET rotation_step == truediv(float(param_dict[K_arange]).v, num_angles - 1)
            IN  IF rotation_step.exc # "" THEN [exc |-> rotation_step.exc, ops |-> <<w1>>]
                ELSE [exc |-> "",
                      ops |-> <<w1,
                                caput(<<ts_prefix, "RotationStep">>, rotation_step.v),
                                caput(<<ts_prefix, "FrameType">>, param_dict[K_image_key])>>]

tomostream_prefix == "ALS832:TomoStream:"

\* as route, with the white and dark broadcasters exchanged
route_swapped(image_key) ==
    IF image_key = 0 THEN "data"
    ELSE IF image_key = 1 THEN "dark"
    ELSE IF image_key = 2 THEN "white"
    ELSE ""

\* as route, with the projection handed to the theta broadcaster
route_theta(image_key) ==
    IF image_key = 0 THEN "theta"
    ELSE IF image_key = 1 THEN "white"
    ELSE IF image_key = 2 THEN "dark"
    ELSE ""

\* lines 90-98: the broadcaster the image goes to, "" when it goes nowhere
route(image_key) ==
    IF image_key = 0 THEN "data"
    ELSE IF image_key = 1 THEN "white"
    ELSE IF image_key = 2 THEN "dark"
    ELSE ""

\* broadcast_image: the sink operations it issues, in order; ret is "return"
\* (line 86), "done" (it ran to its end) or "raise" (exc escapes); theta is
\* whether broadcast_theta ran to its end.
\* lines 87-101
broadcast_image_routed(frame_data, param_dict, frameID) ==
    LET p == parse_image_params(param_dict)
        key == int(param_dict[K_image_key])
    IN  IF p.exc # "" THEN [ret |-> "raise", exc |-> p.exc, ops |-> << >>, theta |-> FALSE]
        ELSE IF key.exc # ""
             THEN [ret |-> "raise", exc |-> key.exc, ops |-> << >>, theta |-> FALSE]
        ELSE
          LET sink == route(key.v)
              image == IF sink = "" THEN << >>
                       ELSE <<frameProducer(sink, frameID, frame_data,
                                            p.columns, p.rows, p.dtype)>>
              th == IF key.v = 0 THEN broadcast_theta(param_dict)
                    ELSE [exc |-> "", angles |-> 0]
              anc == update_ancillary_pvs(tomostream_prefix, param_dict)
          IN  IF th.exc # ""
              THEN [ret |-> "raise", exc |-> th.exc, ops |-> image, theta |-> FALSE]
              ELSE [ret |-> IF anc.exc = "" THEN "done" ELSE "raise",
                    exc |-> anc.exc,
                    ops |-> image \o anc.ops,
                    theta |-> key.v = 0]

\* as broadcast_image, without the check of lines 82-86: line 90 then raises
broadcast_image_nocheck(frame_data, param_dict, frameID) ==
    IF K_image_key \notin DOMAIN param_dict
    THEN [ret |-> "raise", exc |-> "KeyError", ops |-> << >>, theta |-> FALSE]
    ELSE broadcast_image_routed(frame_data, param_dict, frameID)

broadcast_image(frame_data, param_dict, frameID) ==
    IF K_image_key \notin DOMAIN param_dict
    THEN [ret |-> "return", exc |-> "", ops |-> << >>, theta |-> FALSE]
    ELSE broadcast_image_routed(frame_data, param_dict, frameID)

(***************************************************************************)
(* The upstream publisher's messages.  A message is a sequence of parts    *)
(* (byte buffers); a frame is a message of seven parts in the order start, *)
(* image, info, h5_file, tif_file, params, end.                            *)
(***************************************************************************)
RECURSIVE Join(_, _)
Join(pieces, sep) ==
    IF pieces = << >> THEN << >>
    ELSE IF Len(pieces) = 1 THEN pieces[1]
    ELSE pieces[1] \o sep \o Join(Tail(pieces), sep)

U16(n) == <<(n \div 256) % 256, n % 256>>

U32(n) == <<(n \div 16777216) % 256, (n \div 65536) % 256, (n \div 256) % 256, n % 256>>

HEADER == <<0, 0, 0, 0>>

InfoPart(words) == HEADER \o Join([i \in 1..Len(words) |-> U32(words[i])], << >>)

\* n pixels first, first + 1, ...
ImagePart(n, first) == HEADER \o Join([i \in 1..n |-> U16(first + i - 1)], << >>)

T_0 == <<48>>
T_1 == <<49>>
T_2 == <<50>>
T_5 == <<53>>
T_00 == <<48, 48>>
T_m1 == <<45, 49>>
T_x == <<120>>
T_180 == <<49, 56, 48>>
T_deg == <<100, 101, 103>>
T_uint8 == <<117, 105, 110, 116, 56>>
T_file == <<102>>

KV(k, v) == k \o SP \o v

\* the parameter lines of a frame that has every key the dispatcher reads
StdLines(image_key) ==
    <<KV(K_image_key, image_key), KV(K_nrays, T_2), KV(K_nslices, T_2), K_dtype,
      KV(K_nangles, T_5), KV(K_arange, T_180)>>

\* lines with line i replaced by the lines of `by` (none, one or more)
Swap(lines, i, by) == SubSeq(lines, 1, i - 1) \o by \o SubSeq(lines, i + 1, Len(lines))

Block(lines) == Join(lines, CRLF)

\* a seven-part message with `pixels` pixels in its image part and the given
\* info words
Parts(start, pixels, words, params, end) ==
    <<start, ImagePart(pixels, 1), InfoPart(words), T_file, T_file, params, end>>

\* a frame of a columns x rows grid; its frame number is also its first pixel
FrameNo(frameID, columns, rows, params) ==
    <<START_TAG, ImagePart(columns * rows, frameID),
      InfoPart(<<columns, rows, 0, 0, frameID>>), T_file, T_file, params, END_TAG>>

Frame(columns, rows, params) == FrameNo(123, columns, rows, params)

\* the frame of image kind image_key that has every key, numbered by the kind
Std(image_key) == FrameNo(100 + image_key[1], 2, 2, Block(StdLines(image_key)))

Var(image_key, i, by) == Frame(2, 2, Block(Swap(StdLines(image_key), i, by)))

BAD_TAG == <<91, 98, 97, 100, 93>>                                \* b"[bad]"

Catalog ==
    [proj           |-> Std(T_0),
     white          |-> Std(T_1),
     dark           |-> Std(T_2),
     key5           |-> Std(T_5),
     key00          |-> Std(T_00),
     keym1          |-> Std(T_m1),
     keyx           |-> Std(T_x),
     nokey          |-> Var(T_0, 1, << >>),
     plus_shape     |-> Frame(2, 2, Block(<<KV(K_image_key, T_1), KV(K_nrays_plus, T_2),
                                            KV(K_nslices_plus, T_2), K_dtype,
                                            KV(K_nangles, T_5), KV(K_arange, T_180)>>)),
     no_nrays       |-> Var(T_0, 2, << >>),
     no_nslices     |-> Var(T_1, 3, << >>),
     no_dtype       |-> Var(T_0, 4, << >>),
     dtype_uint8    |-> Var(T_0, 4, <<KV(K_dtype, T_uint8)>>),
     nangles1       |-> Var(T_0, 5, <<KV(K_nangles, T_1)>>),
     nangles1_white |-> Var(T_1, 5, <<KV(K_nangles, T_1)>>),
     nangles1_key5  |-> Var(T_5, 5, <<KV(K_nangles, T_1)>>),
     nangles0       |-> Var(T_2, 5, <<KV(K_nangles, T_0)>>),
     nangles_m1     |-> Var(T_0, 5, <<KV(K_nangles, T_m1)>>),
     nangles_x      |-> Var(T_1, 5, <<KV(K_nangles, T_x)>>),
     no_nangles     |-> Var(T_0, 5, << >>),
     no_nangles_dark |-> Var(T_2, 5, << >>),
     no_arange      |-> Var(T_0, 6, << >>),
     no_arange_white |-> Var(T_1, 6, << >>),
     arange_x       |-> Var(T_2, 6, <<KV(K_arange, T_x)>>),
     arange_nan     |-> Var(T_1, 6, <<KV(K_arange, S_nan)>>),
     arange_words   |-> Var(T_1, 6, <<KV(K_arange, KV(T_180, T_deg))>>),
     dup_key        |-> Var(T_1, 6, <<KV(K_arange, T_180), KV(K_image_key, T_2)>>),
     trailing_crlf  |-> Var(T_1, 6, <<KV(K_arange, T_180), EMPTY>>),
     params_ff      |-> Var(T_0, 6, <<KV(K_arange, <<255>>)>>),
     final          |-> Frame(2, 2, FINAL_TAG),
     final_null     |-> Frame(1, 1, FINAL_TAG),
     garbage        |-> Frame(2, 2, KV(GARBAGE_TAG, T_x)),
     garbage_null   |-> Frame(2, 1, KV(GARBAGE_TAG, T_x)),
     null_1x2       |-> Frame(2, 1, Block(StdLines(T_0))),
     null_2x1       |-> Frame(1, 2, Block(StdLines(T_0))),
     null_0x0       |-> Frame(0, 0, Block(StdLines(T_1))),
     grid_1x3       |-> Frame(3, 1, Block(StdLines(T_1))),
     bad_start      |-> Parts(BAD_TAG, 4, <<2, 2, 0, 0, 123>>, Block(StdLines(T_0)), END_TAG),
     bad_end        |-> Parts(START_TAG, 4, <<2, 2, 0, 0, 123>>, Block(StdLines(T_1)), BAD_TAG),
     bad_tags_info  |-> Parts(BAD_TAG, 4, <<2>>, Block(StdLines(T_0)), BAD_TAG),
     info_1word     |-> Parts(START_TAG, 4, <<2>>, Block(StdLines(T_0)), END_TAG),
     info_3words    |-> Parts(START_TAG, 4, <<2, 2, 0>>, Block(StdLines(T_0)), END_TAG),
     info_3words_final |-> Parts(START_TAG, 4, <<2, 2, 0>>, FINAL_TAG, END_TAG),
     info_ragged    |-> <<START_TAG, ImagePart(4, 1), InfoPart(<<2, 2, 0, 0, 123>>) \o <<0>>,
                          T_file, T_file, Block(StdLines(T_0)), END_TAG>>,
     image_short    |-> Parts(START_TAG, 3, <<2, 2, 0, 0, 123>>, Block(StdLines(T_0)), END_TAG),
     image_ragged   |-> <<START_TAG, ImagePart(4, 1) \o <<0>>, InfoPart(<<2, 2, 0, 0, 123>>),
                          T_file, T_file, Block(StdLines(T_0)), END_TAG>>,
     short6         |-> SubSeq(Std(T_0), 1, 6),
     long8          |-> Std(T_1) \o <<T_file>>]

\* what the publisher may send: a survey of single messages, or a stream of
\* several messages from a short list
Names(profile) ==
    IF profile = "survey" THEN DOMAIN Catalog
    ELSE {"proj", "white", "key5", "bad_start", "final", "nangles1", "nokey", "no_dtype",
          "short6"}

(***************************************************************************)
(* Bounds: the number of messages the publisher sends in each profile.     *)
(***************************************************************************)
MaxSurvey == 1

MaxStream == 3

Limit(profile) == IF profile = "survey" THEN MaxSurvey ELSE MaxStream

(***************************************************************************)
(* State                                                                   *)
(***************************************************************************)
VARIABLES
    pc,           \* where main_loop / zmq_monitor_loop stands
    signal,       \* "" or, once Ctrl-C was delivered, the pc it was delivered at
    broadcasters, \* TomoStreamPVASet.broadcasters: each PVABroadcaster's server
    socket,       \* zmq_stream.socket: "unset", "open" or "closed"
    upstream,     \* the publisher's profile
    sent,         \* the names of the messages published so far, in order
    wire,         \* parts delivered to the socket and not yet received:
                  \* <<m, k>> is part k of the m-th message published
    got,          \* the parts read() has received in the running iteration
    data_obj,     \* zmq_monitor_loop's data_obj
    cls,          \* the branch of lines 238-246 the running iteration took
    pending,      \* sink operations of the running broadcast_image still to come
    outcome,      \* how the running iteration ends once pending is empty
    effects,      \* every sink operation issued so far, in order
    frames        \* one entry per finished iteration, in order

vars == <<pc, signal, broadcasters, socket, upstream, sent, wire, got, data_obj,
          cls, pending, outcome, effects, frames>>

Sinks == {"data", "dark", "white", "theta"}

\* the buffer of part <<m, k>>
Part(p) == Catalog[sent[p[1]]][p[2]]

\* data_obj of lines 154-161 once seven parts were received
Raw(parts) ==
    [start |-> Part(parts[1]), image |-> Part(parts[2]), info |-> Part(parts[3]),
     h5_file |-> Part(parts[4]), tif_file |-> Part(parts[5]),
     params |-> Part(parts[6]), end |-> Part(parts[7])]

NoOutcome == [ret |-> "", exc |-> "", theta |-> FALSE]

Raise(exc) == [ret |-> "raise", exc |-> exc, theta |-> FALSE]

\* the running iteration ends: it leaves an entry in frames, and its locals
\* are gone
EndIteration(class, ret, exc, theta) ==
    /\ frames' = Append(frames, [src |-> got, cls |-> class, ret |-> ret,
                                 exc |-> exc, theta |-> theta])
    /\ got' = << >>
    /\ cls' = ""
    /\ outcome' = NoOutcome

Init ==
    /\ pc = "start_pva_streams"
    /\ signal = ""
    /\ broadcasters = [s \in Sinks |-> "created"]
    /\ socket = "unset"
    /\ upstream \in {"survey", "stream"}
    /\ sent = << >>
    /\ wire = << >>
    /\ got = << >>
    /\ data_obj = None
    /\ cls = ""
    /\ pending = << >>
    /\ outcome = NoOutcome
    /\ effects = << >>
    /\ frames = << >>

(***************************************************************************)
(* main_loop                                                               *)
(***************************************************************************)
\* line 264
start_pva_streams ==
    /\ pc = "start_pva_streams"
    /\ broadcasters' = [s \in Sinks |-> "started"]
    /\ pc' = "ZMQ_Stream"
    /\ UNCHANGED <<signal, socket, upstream, sent, wire, got, data_obj, cls, pending,
                   outcome, effects, frames>>

\* lines 265-269: ZMQ_Stream.__init__ connects and subscribes
ZMQ_Stream_init ==
    /\ pc = "ZMQ_Stream"
    /\ socket' = "open"
    /\ pc' = "sleep"
    /\ UNCHANGED <<signal, broadcasters, upstream, sent, wire, got, data_obj, cls,
                   pending, outcome, effects, frames>>

\* the publisher sends one message; its parts queue on the socket
publish(name) ==
    /\ socket = "open"
    /\ pc # "exit"
    /\ Len(sent) < Limit(upstream)
    /\ sent' = Append(sent, name)
    /\ wire' = wire \o [k \in 1..Len(Catalog[name]) |-> <<Len(sent) + 1, k>>]
    /\ UNCHANGED <<pc, signal, broadcasters, socket, upstream, got, data_obj, cls,
                   pending, outcome, effects, frames>>

(***************************************************************************)
(* ZMQ_Stream.zmq_monitor_loop                                             *)
(***************************************************************************)
\* line 234, then into the try block
time_sleep ==
    /\ pc = "sleep"
    /\ pc' = "read"
    /\ UNCHANGED <<signal, broadcasters, socket, upstream, sent, wire, got, data_obj,
                   cls, pending, outcome, effects, frames>>

\* as recv, with the socket handing out its newest part first
recv_newest(queue) ==
    [msg |-> queue[Len(queue)], rest |-> SubSeq(queue, 1, Len(queue) - 1)]

\* the part one socket.recv() takes off the socket's queue, and what is left
recv(queue) == [msg |-> Head(queue), rest |-> Tail(queue)]

\* one sock_recv of read(), lines 155-161: blocks until a part is there
sock_recv ==
    /\ pc = "read"
    /\ Len(got) < 7
    /\ wire # << >>
    /\ got' = Append(got, recv(wire).msg)
    /\ wire' = recv(wire).rest
    /\ UNCHANGED <<pc, signal, broadcasters, socket, upstream, sent, data_obj, cls,
                   pending, outcome, effects, frames>>

\* read() lines 163-175 and the assignment of line 236
read_return ==
    /\ pc = "read"
    /\ Len(got) = 7
    /\ LET r == read(Raw(got))
       IN  IF r.exc # ""
           THEN /\ pc' = "except"
                /\ outcome' = Raise(r.exc)
                /\ UNCHANGED data_obj
           ELSE /\ pc' = "classify"
                /\ data_obj' = r.v
                /\ UNCHANGED outcome
    /\ UNCHANGED <<signal, broadcasters, socket, upstream, sent, wire, got, cls,
                   pending, effects, frames>>

\* lines 238-246: the class of a decoded frame, first match wins
FrameClass(d) ==
    IF is_final(d) THEN "Final"
    ELSE IF is_garbage(d) THEN "Garbage"
    ELSE IF is_null_frame(d) THEN "Null"
    ELSE "Valid"

\* as Continues, with the `continue` of line 246 missing
Continues_not_null(class) == class \in {"Final", "Garbage"}

\* lines 240, 243, 246: the classes that `continue`
Continues(class) == class \in {"Final", "Garbage", "Null"}

\* lines 237-246: subscripting the tuple (None, None) is a TypeError; Final,
\* Garbage and Null frames `continue`
classify ==
    /\ pc = "classify"
    /\ IF data_obj.kind # "dict"
       THEN /\ pc' = "except"
            /\ outcome' = Raise("TypeError")
            /\ UNCHANGED <<got, cls, frames>>
       ELSE IF Continues(FrameClass(data_obj))
       THEN /\ pc' = "sleep"
            /\ EndIteration(FrameClass(data_obj), "continue", "", FALSE)
       ELSE /\ pc' = "dispatch"
            /\ cls' = FrameClass(data_obj)
            /\ UNCHANGED <<got, outcome, frames>>
    /\ UNCHANGED <<signal, broadcasters, socket, upstream, sent, wire, data_obj,
                   pending, effects>>

\* as Dispatch, with the frame number counted by the loop instead of read
\* from the frame's info
Dispatch_counting(d) ==
    LET param_dict == params_to_dict(d.params)
    IN  IF param_dict.exc # "" THEN Raise(param_dict.exc) @@ [ops |-> << >>]
        ELSE IF Len(d.info) < 5 THEN Raise("IndexError") @@ [ops |-> << >>]
        ELSE broadcast_image([dtype |-> d.image.dtype,
                              shape |-> Tail(d.image.shape),
                              data |-> d.image.data],
                             param_dict.v, Len(frames) + 1)

\* lines 249-252: the arguments, then what broadcast_image does
Dispatch(d) ==
    LET param_dict == params_to_dict(d.params)
    IN  IF param_dict.exc # "" THEN Raise(param_dict.exc) @@ [ops |-> << >>]
        ELSE IF Len(d.info) < 5 THEN Raise("IndexError") @@ [ops |-> << >>]
        ELSE broadcast_image([dtype |-> d.image.dtype,
                              shape |-> Tail(d.image.shape),
                              data |-> d.image.data],
                             param_dict.v, d.info[5])

dispatch ==
    /\ pc = "dispatch"
    /\ LET b == Dispatch(data_obj)
       IN  /\ pending' = b.ops
           /\ outcome' = [ret |-> b.ret, exc |-> b.exc, theta |-> b.theta]
    /\ pc' = "broadcast_image"
    /\ UNCHANGED <<signal, broadcasters, socket, upstream, sent, wire, got, data_obj,
                   cls, effects, frames>>

\* the sinks after one more operation, issued by the running iteration
Issue(done, op) == Append(done, [iter |-> Len(frames) + 1] @@ op)

\* the next frameProducer / caput call of the running broadcast_image
sink_call ==
    /\ pc = "broadcast_image"
    /\ pending # << >>
    /\ effects' = Issue(effects, Head(pending))
    /\ pending' = Tail(pending)
    /\ UNCHANGED <<pc, signal, broadcasters, socket, upstream, sent, wire, got,
                   data_obj, cls, outcome, frames>>

\* broadcast_image returns (lines 86, 101) or raises into line 257
broadcast_image_end ==
    /\ pc = "broadcast_image"
    /\ pending = << >>
    /\ IF outcome.ret = "raise"
       THEN /\ pc' = "except"
            /\ UNCHANGED <<got, cls, outcome, frames>>
       ELSE /\ pc' = "sleep"
            /\ EndIteration(cls, outcome.ret, "", outcome.theta)
    /\ UNCHANGED <<signal, broadcasters, socket, upstream, sent, wire, data_obj,
                   pending, effects>>

\* as except_Exception, with the handler leaving the loop as line 256 does
except_Exception_break ==
    /\ pc = "except"
    /\ EndIteration(cls, "raise", outcome.exc, outcome.theta)
    /\ pc' = "exit"
    /\ UNCHANGED <<signal, broadcasters, socket, upstream, sent, wire, data_obj,
                   pending, effects>>

\* as except_Exception, with the handler discarding the part that is next on
\* the socket
except_Exception_drain ==
    /\ pc = "except"
    /\ EndIteration(cls, "raise", outcome.exc, outcome.theta)
    /\ pc' = "sleep"
    /\ wire' = IF wire = << >> THEN wire ELSE Tail(wire)
    /\ UNCHANGED <<signal, broadcasters, socket, upstream, sent, data_obj,
                   pending, effects>>

\* lines 257-258: log the exception, go on with the next iteration
except_Exception ==
    /\ pc = "except"
    /\ EndIteration(cls, "raise", outcome.exc, outcome.theta)
    /\ pc' = "sleep"
    /\ UNCHANGED <<signal, broadcasters, socket, upstream, sent, wire, data_obj,
                   pending, effects>>

(***************************************************************************)
(* Cancellation.  Ctrl-C raises KeyboardInterrupt in the main thread at    *)
(* the statement it is executing.  Inside the try block of lines 235-252   *)
(* it is caught by line 254; in time.sleep (line 234), in the handler of   *)
(* line 258 and in ZMQ_Stream.__init__ it reaches line 271 of main_loop.   *)
(* One signal is modelled.                                                 *)
(***************************************************************************)
InTry == pc \in {"read", "classify", "dispatch", "broadcast_image"}

InLoop == InTry \/ pc \in {"sleep", "except"}

\* where a KeyboardInterrupt raised now is handled
Handler == IF InTry THEN "except_KeyboardInterrupt" ELSE "main_except"

\* the exception unwinds a running broadcast_image: what it had still to
\* issue is never issued
KeyboardInterrupt ==
    /\ signal = ""
    /\ InLoop \/ pc = "ZMQ_Stream"
    /\ signal' = pc
    /\ pc' = Handler
    /\ pending' = << >>
    /\ UNCHANGED <<broadcasters, socket, upstream, sent, wire, got, data_obj, cls,
                   outcome, effects, frames>>

\* lines 254-256: log and break; zmq_monitor_loop returns, and so does the
\* try block of main_loop, whose handler does not run
except_KeyboardInterrupt ==
    /\ pc = "except_KeyboardInterrupt"
    /\ EndIteration(cls, "raise", "KeyboardInterrupt", FALSE)
    /\ pc' = "exit"
    /\ UNCHANGED <<signal, broadcasters, socket, upstream, sent, wire, data_obj,
                   pending, effects>>

\* PVABroadcaster.stop, for every broadcaster
stop_pva_streams == [s \in Sinks |-> "stopped"]

\* lines 271-273: zmq_stream is unbound when ZMQ_Stream.__init__ was cut
\* short, and line 273 then raises
main_except ==
    /\ pc = "main_except"
    /\ broadcasters' = stop_pva_streams
    /\ socket' = IF socket = "open" THEN "closed" ELSE socket
    /\ pc' = "exit"
    /\ UNCHANGED <<signal, upstream, sent, wire, got, data_obj, cls, pending, outcome,
                   effects, frames>>

\* the steps the interpreter takes by itself
Step ==
    \/ start_pva_streams
    \/ ZMQ_Stream_init
    \/ time_sleep
    \/ sock_recv
    \/ read_return
    \/ classify
    \/ dispatch
    \/ sink_call
    \/ broadcast_image_end
    \/ except_Exception
    \/ except_KeyboardInterrupt
    \/ main_except

Next ==
    \/ Step
    \/ \E name \in Names(upstream) : publish(name)
    \/ KeyboardInterrupt

Spec == Init /\ [][Next]_vars

(***************************************************************************)
(* What the properties below read off the state.                           *)
(***************************************************************************)
\* the sink operations iteration i issued, in order
IterOps(i) == SelectSeq(effects, LAMBDA e : e.iter = i)

Broadcasts(i) == SelectSeq(IterOps(i), LAMBDA e : e.call = "frameProducer")

Writes(i) == SelectSeq(IterOps(i), LAMBDA e : e.call = "caput")

\* the seven parts of the m-th message published
FrameParts(m) == [k \in 1..7 |-> <<m, k>>]

\* every message before the m-th had seven parts, so the m-th is read as sent
InStep(m) == \A j \in 1..(m - 1) : Len(Catalog[sent[j]]) = 7

\* the m-th message is a frame that has every key, of a routed image kind
WellFormed(m) == Catalog[sent[m]] \in {Std(T_0), Std(T_1), Std(T_2)}

\* the m-th message was dispatched: one image broadcast, three metadata writes
Dispatched(m) ==
    \E i \in 1..Len(frames) :
        /\ frames[i].src = FrameParts(m)
        /\ frames[i].ret = "done"
        /\ Len(Broadcasts(i)) = 1
        /\ Len(Writes(i)) = 3

\* iteration i ended in an exception other than the cancellation
Failed(i) == frames[i].ret = "raise" /\ frames[i].exc # "KeyboardInterrupt"

\* the parts the finished iterations 1..n received, in order
RECURSIVE Consumed(_)
Consumed(n) == IF n = 0 THEN << >> ELSE Consumed(n - 1) \o frames[n].src

\* the parts of the first n messages published, in order
RECURSIVE Published(_)
Published(n) ==
    IF n = 0 THEN << >>
    ELSE Published(n - 1) \o [k \in 1..Len(Catalog[sent[n]]) |-> <<n, k>>]

\* C1: fault isolation.  Without a cancellation signal the loop never ends,
\* whatever frames failed: after every failed iteration the program is still
\* in the loop.  And once the loop is past a well-formed Valid frame (read as
\* it was sent), that frame is dispatched, whatever failed before it.
C1_FaultIsolation ==
    signal = "" =>
        /\ pc # "exit"
        /\ (\E i \in 1..Len(frames) : Failed(i)) => InLoop
        /\ \A m \in 1..Len(sent) :
              (InStep(m) /\ WellFormed(m) /\ Len(Consumed(Len(frames))) >= 7 * m)
                  => Dispatched(m)

\* a malformed frame between two well-formed frames, both dispatched
C1_Witness ==
    /\ signal = ""
    /\ Len(frames) = 3
    /\ Dispatched(1)
    /\ frames[2].src = FrameParts(2) /\ Failed(2)
    /\ Dispatched(3)

\* C2: cancellation shutdown.  When the program has exited after a signal
\* delivered in the loop (in the sleep, the receive, decode, classify,
\* dispatch or the exception handler), all four sinks are stopped and the
\* socket is closed.
C2_CancelShutdown ==
    (pc = "exit" /\ signal \in {"sleep", "read", "classify", "dispatch",
                                "broadcast_image", "except"})
        => /\ \A s \in Sinks : broadcasters[s] = "stopped"
           /\ socket = "closed"

\* the parts iteration i received
SrcOf(i) == IF i <= Len(frames) THEN frames[i].src ELSE got

\* C3: sequential ordering.  Parts are consumed in the order they were
\* published; the sink operations are in the order of the iterations that
\* issued them; an iteration issues at most one image broadcast, carrying its
\* own frame's number and pixels; and while the loop sleeps, receives, decodes
\* or classifies, every sink operation of the earlier iterations is already
\* out and none is left over.
C3_Sequential ==
    /\ Consumed(Len(frames)) \o got \o wire = Published(Len(sent))
    /\ \A i, j \in 1..Len(effects) : i < j => effects[i].iter <= effects[j].iter
    /\ \A i \in 1..Len(effects) :
          /\ effects[i].iter <= Len(frames) + 1
          /\ effects[i].call = "frameProducer" =>
                LET raw == Raw(SrcOf(effects[i].iter))
                IN  /\ effects[i].value.frame_data.data
                          = frombuffer(Slice4(raw.image), 2).v
                    /\ effects[i].value.frameId = frombuffer(Slice4(raw.info), 4).v[5]
    /\ \A i \in 1..(Len(frames) + 1) : Len(Broadcasts(i)) <= 1
    /\ pc \in {"sleep", "read", "classify", "dispatch"} =>
          /\ pending = << >>
          /\ \A i \in 1..Len(effects) : effects[i].iter <= Len(frames)

\* two frames broadcast one after the other while a third is already queued
C3_Witness ==
    /\ Len(frames) = 2
    /\ Dispatched(1) /\ Dispatched(2)
    /\ sent[1] # sent[2]
    /\ Len(wire) = 7

\* the class the precedence of the specification gives the seven parts
RefClass(raw) ==
    LET columns == BigEndian(SubSeq(raw.info, 5, 8))
        rows == BigEndian(SubSeq(raw.info, 9, 12))
    IN  IF startswith(raw.params, FINAL_TAG) THEN "Final"
        ELSE IF startswith(raw.params, GARBAGE_TAG) THEN "Garbage"
        ELSE IF rows + columns <= 3 THEN "Null"
        ELSE "Valid"

\* iteration i read the frame of that name, whole
Read(i, name) ==
    /\ Len(frames[i].src) = 7
    /\ frames[i].src = FrameParts(frames[i].src[1][1])
    /\ sent[frames[i].src[1][1]] = name

\* C4: classification.  Every frame the loop classified got the class of the
\* fixed precedence Final, Garbage, Null, Valid; a "-writedone" frame with a
\* 1x1 grid is Final, a (rows=1, columns=2) grid is Null and a 2x2 grid is
\* Valid.
C4_Classification ==
    /\ cls # "" => cls = RefClass(Raw(got))
    /\ \A i \in 1..Len(frames) :
          /\ frames[i].cls # "" => frames[i].cls = RefClass(Raw(frames[i].src))
          /\ (Read(i, "final_null") /\ frames[i].cls # "") => frames[i].cls = "Final"
          /\ (Read(i, "null_1x2") /\ frames[i].cls # "") => frames[i].cls = "Null"
          /\ (Read(i, "proj") /\ frames[i].cls # "") => frames[i].cls = "Valid"

\* the loop has classified a (rows=1, columns=2) frame
C4_Witness ==
    \E i \in 1..Len(frames) : Read(i, "null_1x2") /\ frames[i].cls = "Null"

\* C5: only Valid frames reach the dispatcher.  An iteration whose frame
\* failed decoding (no class) or was classified Final, Garbage or Null has
\* issued no sink operation.
C5_OnlyValidDispatched ==
    /\ cls # "Valid" => (pending = << >> /\ IterOps(Len(frames) + 1) = << >>)
    /\ \A i \in 1..Len(frames) : frames[i].cls # "Valid" => IterOps(i) = << >>

\* a dispatched frame, then a dropped frame and a frame that failed decoding
C5_Witness ==
    /\ Len(frames) = 3
    /\ Dispatched(1)
    /\ frames[2].cls = "Final"
    /\ frames[3].cls = "" /\ Failed(3)

\* the parameter block iteration i received, as params_to_dict reads it
ParamsOf(i) == params_to_dict(Raw(frames[i].src).params).v

\* iteration i took a Valid frame to the dispatcher, the frame's parameter
\* block and frame number could be read, and no signal cut the iteration short
Ran(i) ==
    /\ frames[i].cls = "Valid"
    /\ frames[i].exc # "KeyboardInterrupt"
    /\ params_to_dict(Raw(frames[i].src).params).exc = ""
    /\ Len(frombuffer(Slice4(Raw(frames[i].src).info), 4).v) >= 5

\* the parameters have the shape keys and the dtype flag
HasImageKeys(d) ==
    /\ K_nrays \in DOMAIN d \/ K_nrays_plus \in DOMAIN d
    /\ K_nslices \in DOMAIN d \/ K_nslices_plus \in DOMAIN d
    /\ K_dtype \in DOMAIN d /\ d[K_dtype] = EMPTY

\* the parameters have an integer image kind
HasKind(d) == K_image_key \in DOMAIN d /\ int(d[K_image_key]).exc = ""

\* the parameters have the metadata keys, and the rotation step is defined
HasAngles(d) ==
    /\ K_nangles \in DOMAIN d /\ int(d[K_nangles]).exc = "" /\ int(d[K_nangles]).v > 1
    /\ K_arange \in DOMAIN d /\ float(d[K_arange]).exc = ""

\* the sinks the image broadcasts of iteration i went to, in order
BroadcastSinks(i) ==
    LET b == Broadcasts(i)
    IN  [k \in 1..Len(b) |-> b[k].target]

\* the metadata PVs iteration i wrote, in order
WrittenPVs(i) ==
    LET w == Writes(i)
    IN  [k \in 1..Len(w) |-> w[k].target[2]]

\* C6: routing coverage.  For a Valid frame with all required keys, image kind
\* 0 causes exactly one broadcast, on the projection sink; 1 exactly one, on
\* the white-field sink; 2 exactly one, on the dark-field sink; any other
\* integer causes no broadcast, and no error when the metadata keys are
\* usable too.
C6_RoutingCoverage ==
    \A i \in 1..Len(frames) :
        LET d == ParamsOf(i)
            image_key == int(d[K_image_key]).v
        IN  (Ran(i) /\ HasImageKeys(d) /\ HasKind(d)) =>
                /\ image_key = 0 => BroadcastSinks(i) = <<"data">>
                /\ image_key = 1 => BroadcastSinks(i) = <<"white">>
                /\ image_key = 2 => BroadcastSinks(i) = <<"dark">>
                /\ image_key \notin {0, 1, 2} =>
                      /\ BroadcastSinks(i) = << >>
                      /\ HasAngles(d) => (frames[i].ret = "done" /\ frames[i].exc = "")

\* a projection, a white field and a frame of kind 5, one after the other
C6_Witness ==
    /\ Len(frames) = 3
    /\ Read(1, "proj") /\ BroadcastSinks(1) = <<"data">>
    /\ Read(2, "white") /\ BroadcastSinks(2) = <<"white">>
    /\ Read(3, "key5") /\ BroadcastSinks(3) = << >> /\ frames[3].ret = "done"

\* C7: metadata writes.  Every Valid frame whose dispatch ran to its end,
\* whatever its image kind, caused exactly three metadata writes: NumAngles,
\* RotationStep and FrameType, FrameType carrying the text of -image_key as
\* it was received; and at most one image broadcast.
C7_MetadataWrites ==
    \A i \in 1..Len(frames) :
        (frames[i].cls = "Valid" /\ frames[i].ret = "done") =>
            /\ WrittenPVs(i) = <<"NumAngles", "RotationStep", "FrameType">>
            /\ \A k \in 1..3 : Writes(i)[k].target[1] = tomostream_prefix
            /\ Writes(i)[3].value = ParamsOf(i)[K_image_key]
            /\ Len(Broadcasts(i)) <= 1
            /\ Len(IterOps(i)) = Len(Broadcasts(i)) + 3

\* a white field and a frame of kind 5 both got their three writes
C7_Witness ==
    /\ Len(frames) = 2
    /\ Read(1, "white") /\ frames[1].ret = "done" /\ Len(Broadcasts(1)) = 1
    /\ Read(2, "key5") /\ frames[2].ret = "done" /\ Len(Broadcasts(2)) = 0
    /\ Len(Writes(2)) = 3 /\ Writes(2)[3].value = T_5

\* the parameters lack both ray-count keys or both slice-count keys
MissingShapeKey(d) ==
    \/ K_nrays \notin DOMAIN d /\ K_nrays_plus \notin DOMAIN d
    \/ K_nslices \notin DOMAIN d /\ K_nslices_plus \notin DOMAIN d

\* C8: MissingShapeKey.  A Valid frame whose parameters have neither -nrays
\* nor +nrays, or neither -nslices nor +nslices, causes no image broadcast and
\* no metadata write.
C8_MissingShapeKey ==
    \A i \in 1..Len(frames) :
        (Ran(i) /\ MissingShapeKey(ParamsOf(i))) => IterOps(i) = << >>

\* C9: MissingRoutingKey.  A Valid frame whose parameters have no -image_key
\* causes no image broadcast and no metadata write, its dispatch returns
\* without an exception, and the loop goes on.
C9_MissingRoutingKey ==
    \A i \in 1..Len(frames) :
        (frames[i].cls = "Valid" /\ Ran(i) /\ K_image_key \notin DOMAIN ParamsOf(i)) =>
            /\ IterOps(i) = << >>
            /\ frames[i].ret = "return"
            /\ frames[i].exc = ""
            /\ signal = "" => InLoop

\* a frame without -image_key, then a projection that is dispatched
C9_Witness ==
    /\ Len(frames) = 2
    /\ Read(1, "nokey") /\ frames[1].ret = "return" /\ IterOps(1) = << >>
    /\ Dispatched(2)

\* the parameters have -image_key, and n for -nangles
Angles(d, n) ==
    /\ K_image_key \in DOMAIN d
    /\ K_nangles \in DOMAIN d
    /\ int(d[K_nangles]).exc = ""
    /\ int(d[K_nangles]).v = n

\* C10: DegenerateAngleRange.  A dispatched Valid frame with -nangles 1 ends
\* in an error (ZeroDivisionError when its other keys are usable), no
\* RotationStep is written for it, and the loop goes on; with -nangles 5 and
\* -arange 180 the RotationStep written is 45.
C10_DegenerateAngleRange ==
    \A i \in 1..Len(frames) :
        LET d == ParamsOf(i)
            pvs == WrittenPVs(i)
        IN  Ran(i) =>
              /\ Angles(d, 1) =>
                    /\ frames[i].ret = "raise"
                    /\ \A k \in 1..Len(pvs) : pvs[k] # "RotationStep"
                    /\ (HasImageKeys(d) /\ HasKind(d) /\ K_arange \in DOMAIN d
                           /\ float(d[K_arange]).exc = "")
                          => (frames[i].exc = "ZeroDivisionError" /\ pvs = <<"NumAngles">>)
                    /\ signal = "" => InLoop
              /\ (Angles(d, 5) /\ frames[i].ret = "done" /\ d[K_arange] = T_180) =>
                    Writes(i)[2] = caput(<<tomostream_prefix, "RotationStep">>, Fraction(45, 1))
                                       @@ [iter |-> i]

\* a frame with -nangles 1 failed, and the projection after it got its
\* RotationStep of 45
C10_Witness ==
    /\ Len(frames) = 2
    /\ Read(1, "nangles1") /\ frames[1].exc = "ZeroDivisionError"
    /\ Dispatched(2)
    /\ Writes(2)[2].target[2] = "RotationStep" /\ Writes(2)[2].value = Fraction(45, 1)

\* iteration i received seven parts and was not cut short by the signal
Whole(i) == Len(frames[i].src) = 7 /\ frames[i].exc # "KeyboardInterrupt"

\* C11: tag validation.  A message whose start part does not begin with
\* "[start]" or whose end part does not begin with "[end]" is rejected by the
\* tag check of read() (the return of line 175, which the loop then fails on
\* with a TypeError), whatever its info and image parts hold.
C11_TagValidation ==
    \A i \in 1..Len(frames) :
        (Whole(i) /\ ~read_tags_ok(Raw(frames[i].src))) =>
            /\ read(Raw(frames[i].src)) = [exc |-> "", v |-> NoneNone]
            /\ frames[i].exc = "TypeError"

\* C12: part-count validation.  A message of fewer or more than seven parts
\* is dropped by itself: no iteration takes parts of two messages, and the
\* parts of a seven-part message are never read together with another's.
C12_PartCount ==
    /\ \A k \in 1..Len(got) : got[k][1] = got[1][1]
    /\ \A i \in 1..Len(frames) :
          \A k \in 1..Len(frames[i].src) : frames[i].src[k][1] = frames[i].src[1][1]

\* C13: cancellation between iterations only.  The signal never ends an
\* iteration with a strict subset of its frame's sink operations issued: an
\* iteration ended by the signal has issued none of them or all of them.
C13_CancelBetweenIterations ==
    \A i \in 1..Len(frames) :
        frames[i].exc = "KeyboardInterrupt" =>
            \/ IterOps(i) = << >>
            \/ Len(IterOps(i)) = Len(Dispatch(read(Raw(frames[i].src)).v).ops)

\* C14: theta stub.  The theta computation ran only in iterations whose frame
\* has image kind 0, and ran in every such iteration that finished its
\* dispatch; no sink operation ever went to the theta broadcaster.
C14_ThetaStub ==
    /\ \A k \in 1..Len(effects) :
          effects[k].call = "frameProducer" => effects[k].target # "theta"
    /\ \A k \in 1..Len(pending) :
          pending[k].call = "frameProducer" => pending[k].target # "theta"
    /\ \A i \in 1..Len(frames) :
          LET d == ParamsOf(i)
          IN  /\ frames[i].theta => (Ran(i) /\ HasKind(d) /\ int(d[K_image_key]).v = 0)
              /\ (Ran(i) /\ frames[i].ret = "done" /\ int(d[K_image_key]).v = 0)
                    => frames[i].theta

\* a projection whose angles were computed and a white field without them;
\* the theta broadcaster got nothing
C14_Witness ==
    /\ Len(frames) = 2
    /\ Read(1, "proj") /\ frames[1].theta /\ frames[1].ret = "done"
    /\ Read(2, "white") /\ ~frames[2].theta /\ frames[2].ret = "done"
    /\ Len(effects) = 8
    /\ BroadcastSinks(1) = <<"data">> /\ BroadcastSinks(2) = <<"white">>

\* the decoding C15 describes, of one line: split at the first space only
FirstSpaceLine(output_dict, line) ==
    LET i == Find(line, SP)
    IN  IF line = EMPTY THEN output_dict
        ELSE IF i = 0 THEN SetItem(output_dict, line, EMPTY)
        ELSE SetItem(output_dict, SubSeq(line, 1, i - 1), SubSeq(line, i + 1, Len(line)))

RECURSIVE FirstSpaceLines(_, _)
FirstSpaceLines(output_dict, lines) ==
    IF lines = << >> THEN output_dict
    ELSE FirstSpaceLines(FirstSpaceLine(output_dict, Head(lines)), Tail(lines))

\* the decoding C15 describes, of a parameter block
FirstSpaceDecode(text) == FirstSpaceLines(EmptyDict, split(text, CRLF))

\* C15: ParamCodec decode.  The dictionary the dispatcher gets for a frame's
\* parameter block is the one that splits each non-empty line at its first
\* space only (the value is the whole remainder), maps a line without a space
\* to the empty string, adds no entry for a trailing empty line and lets the
\* last of duplicate keys win.
C15_ParamCodec ==
    \A i \in 1..Len(frames) :
        Ran(i) => ParamsOf(i) = FirstSpaceDecode(decode(Raw(frames[i].src).params).v)

\* the sink operations of iteration i, without the iteration's number
Ops(i) ==
    LET e == IterOps(i)
    IN  [k \in 1..Len(e) |-> [call |-> e[k].call, target |-> e[k].target,
                              value |-> e[k].value]]

\* C16: history independence.  Two iterations that received the same seven
\* parts, whatever came before each of them, ended the same way: the same
\* class, the same outcome and the same sink operations.
C16_HistoryIndependence ==
    \A i, j \in 1..Len(frames) :
        (i < j /\ Whole(i) /\ Whole(j) /\ Raw(frames[i].src) = Raw(frames[j].src)) =>
            /\ frames[i].cls = frames[j].cls
            /\ frames[i].ret = frames[j].ret
            /\ frames[i].exc = frames[j].exc
            /\ frames[i].theta = frames[j].theta
            /\ Ops(i) = Ops(j)

\* the same projection before and after a frame that failed, dispatched alike
C16_Witness ==
    /\ Len(frames) = 3
    /\ Read(1, "proj") /\ Read(3, "proj")
    /\ Failed(2)
    /\ Len(Ops(1)) = 4 /\ Ops(1) = Ops(3)

\* the number of 32-bit words after the header of iteration i's info part
InfoWords(i) == (Len(Raw(frames[i].src).info) - 4) \div 4

\* C17: TruncatedInfo at decode time.  A message whose info part holds fewer
\* than five words is rejected before classification: its iteration has no
\* class (it is not Final, Garbage, Null or Valid) and issued no sink
\* operation.
C17_TruncatedInfo ==
    \A i \in 1..Len(frames) :
        (Whole(i) /\ InfoWords(i) < 5) =>
            /\ frames[i].cls = ""
            /\ IterOps(i) = << >>

\* every message published so far has seven parts
SevenParts == \A m \in 1..Len(sent) : Len(Catalog[sent[m]]) = 7

\* C18: part alignment.  Decoding starts only once seven parts were received;
\* every iteration the signal did not end received exactly seven parts,
\* whatever its outcome, so n iterations consumed 7n parts; and when the
\* messages have seven parts each, the i-th iteration received exactly the
\* parts of the i-th message, whatever failed before it.
C18_PartAlignment ==
    /\ pc \in {"classify", "dispatch", "broadcast_image", "except"} => Len(got) = 7
    /\ \A i \in 1..Len(frames) : frames[i].exc # "KeyboardInterrupt" => Len(frames[i].src) = 7
    /\ signal = "" => Len(Consumed(Len(frames))) = 7 * Len(frames)
    /\ SevenParts =>
          /\ \A i \in 1..Len(frames) : Len(frames[i].src) = 7 => frames[i].src = FrameParts(i)
          /\ got = SubSeq(FrameParts(Len(frames) + 1), 1, Len(got))

\* a frame that failed decoding, a dropped frame and a dispatched frame, each
\* read from its own seven parts
C18_Witness ==
    /\ Len(frames) = 3
    /\ Failed(1) /\ frames[1].cls = ""
    /\ frames[2].cls = "Final"
    /\ Dispatched(3)
    /\ \A i \in 1..3 : frames[i].src = FrameParts(i)

\* what the sink operations of iteration i were, in order: "image" for a
\* frameProducer call, the PV's name for a caput
OpNames(i) ==
    LET e == IterOps(i)
    IN  [k \in 1..Len(e) |-> IF e[k].call = "frameProducer" THEN "image"
                             ELSE e[k].target[2]]

IsPrefix(s, t) == Len(s) <= Len(t) /\ s = SubSeq(t, 1, Len(s))

MetadataOrder == <<"NumAngles", "RotationStep", "FrameType">>

\* C19: within-frame write order.  The sink operations of every iteration,
\* finished or running, are a prefix of image, NumAngles, RotationStep,
\* FrameType (without the image for an unrouted kind); a dispatch that fails
\* leaves what it had issued: a routed frame without -nangles leaves its image
\* alone; one with -nangles 1 leaves image and NumAngles; one without -arange
\* leaves image and NumAngles, or the image alone when it is a projection
\* (whose theta computation fails first).
C19_WriteOrder ==
    /\ \A i \in 1..(Len(frames) + 1) :
          \/ IsPrefix(OpNames(i), <<"image">> \o MetadataOrder)
          \/ IsPrefix(OpNames(i), MetadataOrder)
    /\ \A i \in 1..Len(frames) :
          LET d == ParamsOf(i)
              routed == HasKind(d) /\ int(d[K_image_key]).v \in {0, 1, 2}
              first == IF routed THEN <<"image">> ELSE << >>
          IN  (Ran(i) /\ HasImageKeys(d) /\ HasKind(d)) =>
                /\ K_nangles \notin DOMAIN d =>
                      (OpNames(i) = first /\ frames[i].exc = "KeyError")
                /\ (Angles(d, 5) /\ K_arange \notin DOMAIN d) =>
                      /\ frames[i].exc = "KeyError"
                      /\ OpNames(i) = IF int(d[K_image_key]).v = 0 THEN <<"image">>
                                      ELSE first \o <<"NumAngles">>
                /\ (Angles(d, 1) /\ K_arange \in DOMAIN d /\ float(d[K_arange]).exc = "") =>
                      OpNames(i) = first \o <<"NumAngles">>
                /\ frames[i].ret = "done" => OpNames(i) = first \o MetadataOrder

\* a white field without -arange: its image and NumAngles are out, nothing else
C19_Witness ==
    /\ Len(frames) = 1
    /\ Read(1, "no_arange_white")
    /\ frames[1].exc = "KeyError"
    /\ OpNames(1) = <<"image", "NumAngles">>
    /\ pc = "sleep"

\* the parameters have both shape keys
HasShapeKeys(d) ==
    /\ K_nrays \in DOMAIN d \/ K_nrays_plus \in DOMAIN d
    /\ K_nslices \in DOMAIN d \/ K_nslices_plus \in DOMAIN d

=============================================================================
